---- MODULE Spec2Model ----
(***************************************************************************)
(* A model of grid-synth (namespace gs): the grid, the alphabet, the two   *)
(* transformations and grid_synth::synthesize with its two buffers.        *)
(*                                                                         *)
(* A grid is a record [w, h, d]: m_width, m_height and m_data, the vector  *)
(* as a sequence (vector index k is d[k+1]).  A probability and a random   *)
(* draw are counted in units of 1/PUnit, so PUnit itself stands for 1.0f.  *)
(***************************************************************************)
EXTENDS Integers, Sequences, FiniteSets, TLC

\* alphabet::wildcard_symbol.id and alphabet::empty_symbol.id
WILDCARD == -1
EMPTY == 0

----------------------------------------------------------------------------
(* Bounds of the model *)

\* the synthesizer's grid is at most PipeMaxW x PipeMaxH, a directly
\* transformed grid at most MaxW x MaxH; cells hold 0..MaxVal
PipeMaxW == 2
PipeMaxH == 1
MaxW == 2
MaxH == 2
MaxVal == 1
\* a search pattern is at most MaxSW x MaxSH, a replacement MaxRW x MaxRH
MaxSW == 2
MaxSH == 2
MaxRW == 2
MaxRH == 2
\* at most MaxRepl replacements in a rule, MaxT transformations in the list
MaxRepl == 2
MaxT == 2
\* 1.0f in units of probability
PUnit == 2
\* symbol ids 1..MaxSym may be registered in the alphabet
MaxSym == 2
\* a document's symbols array holds at most MaxSymbols entries
MaxSymbols == 3
\* a data array of a document holds at most MaxData values, its version
\* is 0..MaxVersion
MaxData == 2
MaxVersion == 2
\* the largest width and height passed to a grid's constructor and resize
MaxDim == 2
MaxAllocated == 4

----------------------------------------------------------------------------
(* grid *)

\* std::vector<int>::resize(n, v): keeps the first n elements, appends v
VectorResize(d, n, v) == [k \in 1..n |-> IF k <= Len(d) THEN d[k] ELSE v]

\* grid::resize on a grid g
resize(g, new_width, new_height, default_value) ==
    [w |-> new_width, h |-> new_height,
     d |-> VectorResize(g.d, new_width * new_height, default_value)]

\* grid::grid(width, height, default_value): resize of an empty vector
GridNew(width, height, default_value) ==
    resize([w |-> 0, h |-> 0, d |-> <<>>], width, height, default_value)

\* the vector index operator() computes for (x, y)
Index(g, x, y) == y * g.w + x

\* int grid::operator()(x, y) const
Get(g, x, y) == g.d[Index(g, x, y) + 1]

\* grid::in_bounds
in_bounds(g, x, y) == x >= 0 /\ x < g.w /\ y >= 0 /\ y < g.h

\* whether the vector holds an element at the index of (x, y)
InVector(g, x, y) == Index(g, x, y) >= 0 /\ Index(g, x, y) < Len(g.d)

\* int& grid::operator()(x, y) = v, for an index the vector holds
Put(g, x, y, v) == [g EXCEPT !.d[Index(g, x, y) + 1] = v]

\* whether m_data.resize(new_width * new_height, v) throws: the int product
\* is converted to size_t, and a negative one is a size beyond max_size()
\* (std::length_error)
ResizeThrows(new_width, new_height) == new_width * new_height < 0

\* the grid a resize that throws leaves behind: m_width and m_height are
\* assigned before the vector is resized
ResizeThrown(g, new_width, new_height) ==
    [g EXCEPT !.w = new_width, !.h = new_height]

\* grid::clear
clear(g, value) == [g EXCEPT !.d = [k \in 1..Len(g.d) |-> value]]

----------------------------------------------------------------------------
(* rule_based_transformation::apply, piece by piece *)

\* the head of apply: output is resized when its dimensions differ from
\* the input's, then every cell of the input is copied into it
RECURSIVE CopyCells(_, _, _)
CopyCells(input, output, n) ==
    IF n >= input.w * input.h THEN output
    ELSE LET x == n % input.w
             y == n \div input.w
         IN  CopyCells(input, Put(output, x, y, Get(input, x, y)), n + 1)

\* a mutant of EnsureDimensions: the output is made one column wider than
\* the input
EnsureDimensionsWider(input, output) == resize(output, input.w + 1, input.h, 0)

EnsureDimensions(input, output) ==
    IF output.w # input.w \/ output.h # input.h
    THEN resize(output, input.w, input.h, 0)
    ELSE output

RuleBegin(input, output) == CopyCells(input, EnsureDimensions(input, output), 0)

\* the guard of an anchor: the bottom-right corner of the search pattern
\* placed at (i, j) is in bounds of the input
AnchorTested(input, m_search, i, j) ==
    in_bounds(input, i + m_search.w - 1, j + m_search.h - 1)

\* the match loops: x outer, y inner, n counts the search cells visited;
\* a wildcard cell is skipped, the first differing cell ends both loops
RECURSIVE MatchFrom(_, _, _, _, _)
MatchFrom(input, m_search, i, j, n) ==
    IF n >= m_search.w * m_search.h THEN TRUE
    ELSE LET x == n \div m_search.h
             y == n % m_search.h
         IN  IF Get(m_search, x, y) = WILDCARD
             THEN MatchFrom(input, m_search, i, j, n + 1)
             ELSE IF Get(input, i + x, j + y) # Get(m_search, x, y)
                  THEN FALSE
                  ELSE MatchFrom(input, m_search, i, j, n + 1)

Match(input, m_search, i, j) == MatchFrom(input, m_search, i, j, 0)

\* a mutant of PickFrom: the comparison is r < acc
RECURSIVE PickFromStrict(_, _, _, _)
PickFromStrict(m_replacement, r, k, acc) ==
    IF k > Len(m_replacement) THEN 0
    ELSE LET a == acc + m_replacement[k].probability
         IN  IF r < a THEN k ELSE PickFromStrict(m_replacement, r, k + 1, a)

\* a mutant of PickFrom: r is compared with the entry's own probability,
\* nothing is accumulated
RECURSIVE PickFromSingle(_, _, _, _)
PickFromSingle(m_replacement, r, k, acc) ==
    IF k > Len(m_replacement) THEN 0
    ELSE IF r <= m_replacement[k].probability THEN k
         ELSE PickFromSingle(m_replacement, r, k + 1, acc)

\* a mutant of PickFrom: r is compared with acc before the entry's
\* probability is added
RECURSIVE PickFromLate(_, _, _, _)
PickFromLate(m_replacement, r, k, acc) ==
    IF k > Len(m_replacement) THEN 0
    ELSE IF r <= acc THEN k
         ELSE PickFromLate(m_replacement, r, k + 1, acc + m_replacement[k].probability)

\* the replacement loop: acc += p; the first entry with r <= acc is taken.
\* The index of the entry applied, 0 when the loop ends without one.
RECURSIVE PickFrom(_, _, _, _)
PickFrom(m_replacement, r, k, acc) ==
    IF k > Len(m_replacement) THEN 0
    ELSE LET a == acc + m_replacement[k].probability
         IN  IF r <= a THEN k ELSE PickFrom(m_replacement, r, k + 1, a)

Pick(m_replacement, r) == PickFrom(m_replacement, r, 1, 0)

\* a mutant of WriteFrom: a wildcard cell is written like any other
RECURSIVE WriteFromAll(_, _, _, _, _)
WriteFromAll(output, replacement, i, j, n) ==
    IF n >= replacement.w * replacement.h THEN output
    ELSE LET x == n \div replacement.h
             y == n % replacement.h
         IN  IF ~InVector(output, i + x, j + y)
             THEN WriteFromAll(output, replacement, i, j, n + 1)
             ELSE WriteFromAll(Put(output, i + x, j + y, Get(replacement, x, y)),
                               replacement, i, j, n + 1)

\* a mutant of WriteFrom: a cell that holds a replacement's value already
\* is not written again
RECURSIVE WriteFromKeep(_, _, _, _, _)
WriteFromKeep(output, replacement, i, j, n) ==
    IF n >= replacement.w * replacement.h THEN output
    ELSE LET x == n \div replacement.h
             y == n % replacement.h
             v == Get(replacement, x, y)
         IN  IF v = WILDCARD \/ ~InVector(output, i + x, j + y)
                \/ Get(output, i + x, j + y) > MaxVal
             THEN WriteFromKeep(output, replacement, i, j, n + 1)
             ELSE WriteFromKeep(Put(output, i + x, j + y, v), replacement, i, j, n + 1)

\* the write loops of one replacement at anchor (i, j): x outer, y inner;
\* a wildcard cell is skipped.  A write whose index the vector does not
\* hold is outside the allocation: it is left out here and counted by
\* OutsideWrites.
RECURSIVE WriteFrom(_, _, _, _, _)
WriteFrom(output, replacement, i, j, n) ==
    IF n >= replacement.w * replacement.h THEN output
    ELSE LET x == n \div replacement.h
             y == n % replacement.h
             v == Get(replacement, x, y)
         IN  IF v = WILDCARD \/ ~InVector(output, i + x, j + y)
             THEN WriteFrom(output, replacement, i, j, n + 1)
             ELSE WriteFrom(Put(output, i + x, j + y, v), replacement, i, j, n + 1)

WriteReplacement(output, replacement, i, j) == WriteFrom(output, replacement, i, j, 0)

\* the cells of the replacement whose write at anchor (i, j) is past the
\* end of the output's vector
OutsideWrites(output, replacement, i, j) ==
    {c \in (0..replacement.w - 1) \X (0..replacement.h - 1) :
        /\ Get(replacement, c[1], c[2]) # WILDCARD
        /\ ~InVector(output, i + c[1], j + c[2])}

\* a mutant of AnchorEvent: the anchor guard is gone and the match loops
\* skip the search cells that fall outside the input
RECURSIVE MatchClipped(_, _, _, _, _)
MatchClipped(input, m_search, i, j, n) ==
    IF n >= m_search.w * m_search.h THEN TRUE
    ELSE LET x == n \div m_search.h
             y == n % m_search.h
         IN  IF Get(m_search, x, y) = WILDCARD \/ ~in_bounds(input, i + x, j + y)
             THEN MatchClipped(input, m_search, i, j, n + 1)
             ELSE IF Get(input, i + x, j + y) # Get(m_search, x, y)
                  THEN FALSE
                  ELSE MatchClipped(input, m_search, i, j, n + 1)

AnchorEventClipped(input, t, i, j, r) ==
    LET match == MatchClipped(input, t.search, i, j, 0)
    IN  [i |-> i, j |-> j, tested |-> TRUE, match |-> match,
         r |-> IF match THEN r ELSE 0,
         k |-> IF match THEN Pick(t.replacements, r) ELSE 0]

\* one iteration of the anchor loops for a draw r: what is decided
\* about the anchor (i, j)
AnchorEvent(input, t, i, j, r) ==
    LET tested == AnchorTested(input, t.search, i, j)
        match  == tested /\ Match(input, t.search, i, j)
    IN  [i |-> i, j |-> j, tested |-> tested, match |-> match,
         r |-> IF match THEN r ELSE 0,
         k |-> IF match THEN Pick(t.replacements, r) ELSE 0]

\* ... and the output it leaves
AnchorOutput(input, output, t, i, j, r) ==
    LET e == AnchorEvent(input, t, i, j, r)
    IN  IF e.k = 0 THEN output
        ELSE WriteReplacement(output, t.replacements[e.k].replacement, i, j)

\* whether that iteration writes past the end of the output's vector
AnchorOutside(input, output, t, i, j, r) ==
    LET e == AnchorEvent(input, t, i, j, r)
    IN  e.k # 0 /\ OutsideWrites(output, t.replacements[e.k].replacement, i, j) # {}

----------------------------------------------------------------------------
(* The inputs the model draws from *)

Values == 0..MaxVal

\* the widths and heights a caller may pass to grid::grid and grid::resize
Dimensions == -1..MaxDim
Draws == 0..PUnit
Probabilities == 0..PUnit

\* every grid of the given widths and heights over the given cell values
GridsOf(widths, heights, vals) ==
    UNION {{[w |-> gw, h |-> gh, d |-> data] : data \in [1..gw * gh -> vals]} :
              <<gw, gh>> \in widths \X heights}

\* the value the k-th replacement of a rule writes: never a value of the input
Mark(k) == MaxVal + k

RandomT(enabled) == [type |-> "random", name |-> "Random", enabled |-> enabled]

RuleT(enabled, search, replacements) ==
    [type |-> "rule_based", name |-> "Rule-based", enabled |-> enabled,
     search |-> search, replacements |-> replacements]

Entry(p, g) == [probability |-> p, replacement |-> g]

SearchPatterns == GridsOf(0..MaxSW, 0..MaxSH, {WILDCARD, 1})
ReplacementShapes(k) == GridsOf(1..MaxRW, 1..MaxRH, {WILDCARD, Mark(k)})

\* rules that vary the search pattern
RulesMatching ==
    {RuleT(TRUE, s, rs) :
        s \in SearchPatterns,
        rs \in {<<>>, <<Entry(PUnit, GridNew(1, 1, Mark(1)))>>}}

\* rules that vary the replacement list: its length and its probabilities
ReplacementLists ==
    UNION {{[k \in 1..n |-> Entry(ps[k], gs[k])] :
               ps \in [1..n -> Probabilities],
               gs \in [1..n -> {GridNew(1, 1, WILDCARD)}] \cup
                      {[k \in 1..n |-> GridNew(1, 1, Mark(k))]}} :
              n \in 0..MaxRepl}

RulesPicking ==
    {RuleT(TRUE, s, rs) :
        s \in GridsOf({1}, {1}, {WILDCARD, 1}), rs \in ReplacementLists}

\* rules that vary the shape of the replacement
RulesWriting ==
    {RuleT(TRUE, s, <<Entry(PUnit, g)>>) :
        s \in GridsOf({1}, {1}, {WILDCARD, 1}), g \in ReplacementShapes(1)}

\* rules whose replacement reaches over the next anchors with two values
RulesOverlapping ==
    {RuleT(TRUE, GridNew(1, 1, 1), <<Entry(PUnit, g)>>) :
        g \in {[w |-> 2, h |-> 1, d |-> <<Mark(1), Mark(2)>>],
               [w |-> 1, h |-> 2, d |-> <<Mark(1), Mark(2)>>],
               [w |-> 2, h |-> 2, d |-> <<Mark(1), Mark(2), Mark(2), Mark(1)>>]}}

\* rules whose first replacement has a probability above 1.0
RulesCertain ==
    {RuleT(TRUE, s, <<Entry(PUnit + 1, GridNew(1, 1, Mark(1))),
                      Entry(PUnit, GridNew(1, 1, Mark(2)))>>) :
        s \in GridsOf({1}, {1}, {WILDCARD, 1})}

ApplyRules ==
    RulesMatching \cup RulesPicking \cup RulesWriting \cup RulesOverlapping \cup
    RulesCertain

\* the rule editor::editor registers, and the inputs its search matches
CrossSearch ==
    [w |-> 3, h |-> 3, d |-> <<WILDCARD, 1, WILDCARD, 1, 2, 1, WILDCARD, 1, WILDCARD>>]

CrossReplacement ==
    [w |-> 3, h |-> 3, d |-> <<WILDCARD, 1, WILDCARD, 1, 1, 1, WILDCARD, 1, WILDCARD>>]

CrossRule == RuleT(TRUE, CrossSearch, <<Entry(PUnit, CrossReplacement)>>)

CrossInputs ==
    {[w |-> 3, h |-> 3, d |-> <<c[1], 1, c[2], 1, 2, 1, c[3], 1, c[4]>>] :
        c \in [1..4 -> Values]}

\* the output buffers a direct caller of apply may pass for an input
OutputBuffers(input) ==
    {GridNew(input.w, input.h, 0), GridNew(input.w, input.h, MaxVal),
     GridNew(1, 1, MaxVal), GridNew(input.w + 1, input.h + 1, MaxVal)}

\* the transformations of a synthesizer's list
PipeRules ==
    {RuleT(en, s, <<Entry(p, g)>>) :
        en \in BOOLEAN,
        s \in GridsOf({1}, {1}, {WILDCARD, 1}),
        p \in {1, PUnit},
        g \in GridsOf({1}, {1}, Values)}

PipeTransformations == {RandomT(en) : en \in BOOLEAN} \cup PipeRules

TransformationLists ==
    UNION {[1..n -> PipeTransformations] : n \in 0..MaxT}

SymbolName(id) ==
    CASE id = 1 -> "F"
      [] id = EMPTY -> "empty"
      [] id = WILDCARD -> "wildcard"
      [] OTHER -> "G"

\* the std::map<int, symbol> m_symbols of the alphabets drawn: id -> name
Alphabets == {[id \in 1..n |-> SymbolName(id)] : n \in 0..MaxSym}

\* the symbols a caller may register, and the symbols arrays of a document
SymbolIds == WILDCARD..MaxSym
Symbols == [id : SymbolIds, name : {"F", "G"}]
SymbolArrays == UNION {[1..n -> Symbols] : n \in 0..MaxSymbols}

\* the synthesizers to_json is called on: the grid, the alphabet and the
\* list of each.  A grid is any a constructor or a resize leaves.
SavedGrids ==
    GridsOf(1..PipeMaxW, 1..PipeMaxH, Values) \cup
    {GridNew(0, 1, 0), GridNew(-1, -1, MaxVal), ResizeThrown(GridNew(1, 1, 0), -1, 1)}

SavedSearches == GridsOf({1}, 1..MaxSH, {WILDCARD, 1}) \cup {GridNew(-1, -1, 1)}

SavedReplacements ==
    {<<>>} \cup
    {<<Entry(p, g)>> : p \in {1, PUnit}, g \in GridsOf(1..MaxRW, {1}, {WILDCARD, Mark(1)})} \cup
    {<<Entry(1, GridNew(1, 1, Mark(1))), Entry(PUnit, GridNew(1, 1, Mark(2)))>>}

SavedTransformations ==
    {RandomT(en) : en \in BOOLEAN} \cup
    {[RandomT(TRUE) EXCEPT !.name = "Noise"]} \cup
    {RuleT(en, s, rs) : en \in BOOLEAN, s \in SavedSearches, rs \in SavedReplacements}

SavedLists ==
    {<<>>} \cup {<<t>> : t \in SavedTransformations} \cup
    {<<t, u>> : t, u \in {RandomT(FALSE), [RandomT(TRUE) EXCEPT !.name = "Noise"],
                          RuleT(TRUE, GridNew(1, 1, 1), <<Entry(PUnit, GridNew(1, 1, Mark(1)))>>)}}

\* the documents from_json is called on, field by field
DataArrays(vals) == UNION {[1..n -> vals] : n \in 0..MaxData}

GridObjects(widths, heights, vals) ==
    {[width |-> gw, height |-> gh, data |-> data] :
        gw \in widths, gh \in heights, data \in DataArrays(vals)}

TransformationObjects ==
    {[name |-> "Random", enabled |-> en, type |-> "random"] : en \in BOOLEAN} \cup
    {[name |-> "Other", enabled |-> TRUE, type |-> "other"]} \cup
    {[name |-> "Rule-based", enabled |-> TRUE, type |-> "rule_based",
      search |-> search, replacements |-> list] :
        search \in GridObjects({-1, 1, 2}, {1}, {WILDCARD, 1}),
        list \in {<<>>} \cup
                 {<<[probability |-> PUnit, grid |-> g]>> :
                     g \in GridObjects({1, 2}, {1}, {Mark(1)})}}

TransformationArrays ==
    {<<>>} \cup {<<t>> : t \in TransformationObjects} \cup
    {<<[name |-> "Random", enabled |-> TRUE, type |-> "random"],
       [name |-> "Other", enabled |-> TRUE, type |-> "other"],
       [name |-> "Random", enabled |-> FALSE, type |-> "random"]>>}

SymbolObjects ==
    {<<>>,
     <<[id |-> 1, name |-> "F"], [id |-> 2, name |-> "G"]>>,
     <<[id |-> 2, name |-> "G"], [id |-> 1, name |-> "F"], [id |-> 2, name |-> "F"]>>}

Documents ==
    [version : 0..MaxVersion,
     grid : GridObjects(Dimensions, {-1, 1}, Values),
     alphabet : [symbols : SymbolObjects],
     transformations : TransformationArrays]

\* a document every field of which is there, with a rule
BaseDocument ==
    [version |-> 1,
     grid |-> [width |-> 1, height |-> 1, data |-> <<1>>],
     alphabet |-> [symbols |-> <<[id |-> 1, name |-> "F"]>>],
     transformations |->
         <<[name |-> "Random", enabled |-> TRUE, type |-> "random"],
           [name |-> "Rule-based", enabled |-> TRUE, type |-> "rule_based",
            search |-> [width |-> 1, height |-> 1, data |-> <<1>>],
            replacements |->
                <<[probability |-> PUnit,
                   grid |-> [width |-> 1, height |-> 1, data |-> <<Mark(1)>>]]>>]>>]

\* the object without the key
Without(obj, key) == [k \in DOMAIN obj \ {key} |-> obj[k]]

\* the object with, under the key, a number where a string, an array or an
\* object is read, and a string where a number or a boolean is read
Wrong(obj, key) ==
    [k \in DOMAIN obj \cup {"mistyped"} |->
        IF k = "mistyped"
        THEN (IF "mistyped" \in DOMAIN obj THEN obj.mistyped ELSE {}) \cup {key}
        ELSE obj[k]]

\* the object with null under the key
Nulled(obj, key) ==
    [k \in DOMAIN obj \cup {"null"} |-> IF k = "null" THEN {key} ELSE obj[k]]

Defects(obj, keys) ==
    {Without(obj, k) : k \in keys} \cup {Wrong(obj, k) : k \in keys}

GridKeys == {"width", "height", "data"}

\* the documents with one required field absent, mistyped or null, or two
DefectiveDocuments ==
    LET b == BaseDocument
        rule == b.transformations[2]
        entry == rule.replacements[1]
    IN  Defects(b, {"version", "grid", "alphabet", "transformations"}) \cup
        Defects([b EXCEPT !.version = 2], {"grid"}) \cup
        {[b EXCEPT !.grid = g] : g \in Defects(b.grid, GridKeys)} \cup
        {[b EXCEPT !.grid = Without(Wrong(b.grid, "width"), "height")],
         [b EXCEPT !.grid = Wrong(Without(b.grid, "width"), "height")],
         [b EXCEPT !.grid = Nulled(b.grid, "data")],
         Nulled(b, "transformations"),
         [b EXCEPT !.alphabet = Nulled(b.alphabet, "symbols")],
         [b EXCEPT !.transformations[2] = Nulled(rule, "replacements")]} \cup
        {[b EXCEPT !.alphabet = a] : a \in Defects(b.alphabet, {"symbols"})} \cup
        {[b EXCEPT !.alphabet.symbols[1] = sym] :
            sym \in Defects(b.alphabet.symbols[1], {"id", "name"})} \cup
        {[b EXCEPT !.transformations[2] = t] :
            t \in Defects(rule, {"type", "name", "enabled", "search", "replacements"})} \cup
        {[b EXCEPT !.transformations[1] = t] :
            t \in Defects(b.transformations[1], {"type", "name", "enabled"})} \cup
        {[b EXCEPT !.transformations[2].search = g] : g \in Defects(rule.search, GridKeys)} \cup
        {[b EXCEPT !.transformations[2].replacements[1] = e] :
            e \in Defects(entry, {"probability", "grid"})} \cup
        {[b EXCEPT !.transformations[2].replacements[1].grid = g] :
            g \in Defects(entry.grid, GridKeys)}

\* the alphabets of a direct call of apply: any ids of -1..MaxSym
CallAlphabets == {[id \in ids |-> SymbolName(id)] : ids \in SUBSET (WILDCARD..MaxSym)}

----------------------------------------------------------------------------
(* alphabet *)

\* alphabet::get_symbols: the symbols of the map in ascending id order
RECURSIVE get_symbols(_)
get_symbols(m_symbols) ==
    IF DOMAIN m_symbols = {} THEN <<>>
    ELSE LET id == CHOOSE a \in DOMAIN m_symbols : \A b \in DOMAIN m_symbols : a <= b
         IN  <<[id |-> id, name |-> m_symbols[id]]>> \o
             get_symbols([b \in DOMAIN m_symbols \ {id} |-> m_symbols[b]])

\* a mutant of add_symbol: the symbol is stored whether or not the id is
\* registered
add_symbolOverwrite(m_symbols, s) ==
    [id \in DOMAIN m_symbols \cup {s.id} |->
        IF id = s.id THEN s.name ELSE m_symbols[id]]

\* alphabet::add_symbol: nothing is done when the id is found in the map
add_symbol(m_symbols, s) ==
    IF s.id \in DOMAIN m_symbols THEN m_symbols
    ELSE [id \in DOMAIN m_symbols \cup {s.id} |->
             IF id = s.id THEN s.name ELSE m_symbols[id]]

\* alphabet::remove_symbol: m_symbols.erase(id)
remove_symbol(m_symbols, id) == [b \in DOMAIN m_symbols \ {id} |-> m_symbols[b]]

\* from_json's alphabet loop: add_symbol for every entry of the document's
\* symbols array, in document order, from the n-th on
RECURSIVE AddSymbols(_, _, _)
AddSymbols(m_symbols, symbols, n) ==
    IF n > Len(symbols) THEN m_symbols
    ELSE AddSymbols(add_symbol(m_symbols, symbols[n]), symbols, n + 1)

\* the map of a default-constructed alphabet
NoSymbols == [id \in {} |-> ""]

----------------------------------------------------------------------------
(* State *)

VARIABLES
    m_grid,             \* grid_synth::m_grid; the input of a direct apply call
    m_alphabet,         \* alphabet::m_symbols of grid_synth::m_alphabet
    m_transformations,  \* grid_synth::m_transformations
    buffer,             \* synthesize's local buffer; the output of a direct call
    input, output,      \* synthesize's pointers: "m_grid" or "buffer"
    t_idx,              \* the position of synthesize's loop in the list
    pc,                 \* where the running call stands
    ai, aj,             \* apply's scan position: i (outer), j (inner)
    outside,            \* whether a write past the end of a vector happened
    last,               \* history: what the last anchor iteration decided
    applied,            \* history: the replacements applied in this apply call
    in0,                \* history: the input grid when apply was entered
    g0,                 \* history: m_grid when synthesize was entered
    current, next,      \* the reference fold of the pipeline: current, next
    out0,               \* history: the output grid when apply was entered
    doc,                \* the JSON document at hand
    parsed,             \* what from_json made of the document
    op,                 \* history: the last call on the grid or the alphabet
    m_selected_transform_index,  \* editor::m_selected_transform_index
    held,               \* the transformation objects the list's pointers own
    allocated           \* how many transformation objects have been made

vars == <<m_grid, m_alphabet, m_transformations, buffer, input, output, t_idx,
          pc, ai, aj, outside, last, applied, in0, g0, current, next,
          out0, doc, parsed, op, m_selected_transform_index, held, allocated>>

\* the editor's view of the transformation list
selection == <<m_selected_transform_index, held, allocated>>

\* what the calls on a synthesizer's pipeline leave alone
codec == <<doc, parsed, op, selection>>

Deref(p) == IF p = "m_grid" THEN m_grid ELSE buffer

T == m_transformations[t_idx]

NoEvent == [i |-> -1, j |-> -1, tested |-> FALSE, match |-> FALSE, r |-> 0, k |-> 0]

NoGrid == [w |-> 0, h |-> 0, d |-> <<>>]

NoDocument == [ok |-> FALSE]

NoCall == [name |-> "none"]

\* a write of the whole grid through the pointer output
StoreOutput(g) ==
    /\ m_grid' = IF output = "m_grid" THEN g ELSE m_grid
    /\ buffer' = IF output = "buffer" THEN g ELSE buffer

\* the scan loops of apply have run out: i reached the width (or there
\* is no row to visit)
ScanDone(g) == ai >= g.w \/ g.h <= 0

\* the scan position after (ai, aj): j inner, i outer
NextScan(g) ==
    /\ ai' = IF aj + 1 < g.h THEN ai ELSE ai + 1
    /\ aj' = IF aj + 1 < g.h THEN aj + 1 ELSE 0

\* the ids a read past the end of an empty symbol vector may yield
GarbageIds == {EMPTY, WILDCARD}

----------------------------------------------------------------------------
(* transformation::apply(input, output), in steps *)

\* a mutant of BeginOutput: the rule's copy of the input is left out
BeginOutputNoCopy(t, in, out) == EnsureDimensions(in, out)

\* the head of either apply, up to the scan loops
BeginOutput(t, in, out) ==
    IF t.type = "rule_based" THEN RuleBegin(in, out) ELSE EnsureDimensions(in, out)

ApplyBegin ==
    /\ pc = "apply"
    /\ StoreOutput(BeginOutput(T, Deref(input), Deref(output)))
    /\ next' = BeginOutput(T, current, NoGrid)
    /\ in0' = Deref(input)
    /\ ai' = 0 /\ aj' = 0
    /\ last' = NoEvent
    /\ applied' = <<>>
    /\ pc' = "scan"
    /\ UNCHANGED <<m_alphabet, m_transformations, input, output, t_idx,
                   outside, g0, current>>
    /\ out0' = Deref(output)
    /\ UNCHANGED codec

\* a mutant of RuleAnchor: the anchor is matched against the output
RuleAnchorInPlace ==
    /\ pc = "scan"
    /\ T.type = "rule_based"
    /\ ~ScanDone(Deref(input))
    /\ \E r \in Draws :
         LET in  == Deref(input)
             out == Deref(output)
             e   == AnchorEvent(out, T, ai, aj, r)
             bad == AnchorOutside(out, out, T, ai, aj, r)
         IN  \E ub \in (IF bad THEN {"lost", "crash"} ELSE {"none"}) :
               /\ last' = e
               /\ outside' = (outside \/ bad)
               /\ IF ub = "crash"
                  THEN /\ pc' = "crashed"
                       /\ UNCHANGED <<m_grid, buffer, next, applied, ai, aj>>
                  ELSE /\ pc' = pc
                       /\ StoreOutput(AnchorOutput(out, out, T, ai, aj, r))
                       /\ next' = AnchorOutput(current, next, T, ai, aj, r)
                       /\ applied' = IF e.k = 0 THEN applied
                                     ELSE Append(applied, [i |-> ai, j |-> aj, k |-> e.k])
                       /\ NextScan(in)
    /\ UNCHANGED <<m_alphabet, m_transformations, input, output, t_idx,
                   in0, g0, current>>
    /\ UNCHANGED <<out0, codec>>

\* one iteration of rule_based_transformation::apply's anchor loops.  A
\* write past the end of the output's vector is undefined behaviour: the
\* write is lost outside the grid, or the process ends.
RuleAnchor ==
    /\ pc = "scan"
    /\ T.type = "rule_based"
    /\ ~ScanDone(Deref(input))
    /\ \E r \in Draws :
         LET in  == Deref(input)
             out == Deref(output)
             e   == AnchorEvent(in, T, ai, aj, r)
             bad == AnchorOutside(in, out, T, ai, aj, r)
         IN  \E ub \in (IF bad THEN {"lost", "crash"} ELSE {"none"}) :
               /\ last' = e
               /\ outside' = (outside \/ bad)
               /\ IF ub = "crash"
                  THEN /\ pc' = "crashed"
                       /\ UNCHANGED <<m_grid, buffer, next, applied, ai, aj>>
                  ELSE /\ pc' = pc
                       /\ StoreOutput(AnchorOutput(in, out, T, ai, aj, r))
                       /\ next' = AnchorOutput(current, next, T, ai, aj, r)
                       /\ applied' = IF e.k = 0 THEN applied
                                     ELSE Append(applied, [i |-> ai, j |-> aj, k |-> e.k])
                       /\ NextScan(in)
    /\ UNCHANGED <<m_alphabet, m_transformations, input, output, t_idx,
                   in0, g0, current>>
    /\ UNCHANGED <<out0, codec>>

\* a mutant of SymbolReads: the index drawn is written, not the id of the
\* symbol at that index
SymbolReadsIndex(symbols) ==
    {[crash |-> FALSE, id |-> n] : n \in 0..Len(symbols) - 1}

\* the outcomes of get_symbols()[dis(gen)].id with dis uniform over
\* 0..size-1.  With no symbol registered the distribution's range is empty
\* and the vector read is out of range: undefined behaviour, some id is
\* read or the process ends.
SymbolReads(symbols) ==
    IF Len(symbols) > 0
    THEN {[crash |-> FALSE, id |-> symbols[n + 1].id] : n \in 0..Len(symbols) - 1}
    ELSE {[crash |-> FALSE, id |-> id] : id \in GarbageIds} \cup
         {[crash |-> TRUE, id |-> 0]}

\* one iteration of random_transformation::apply's cell loops
RandomCell ==
    /\ pc = "scan"
    /\ T.type = "random"
    /\ ~ScanDone(Deref(output))
    /\ \E read \in SymbolReads(get_symbols(m_alphabet)) :
         IF read.crash
         THEN /\ pc' = "crashed"
              /\ UNCHANGED <<m_grid, buffer, next, ai, aj>>
         ELSE /\ pc' = pc
              /\ StoreOutput(Put(Deref(output), ai, aj, read.id))
              /\ next' = Put(next, ai, aj, read.id)
              /\ NextScan(Deref(output))
    /\ UNCHANGED <<m_alphabet, m_transformations, input, output, t_idx,
                   outside, last, applied, in0, g0, current>>
    /\ UNCHANGED <<out0, codec>>

\* a direct caller's apply returns
ApplyReturn ==
    /\ pc = "scan"
    /\ ScanDone(Deref(input))
    /\ pc' = "returned"
    /\ UNCHANGED <<m_grid, m_alphabet, m_transformations, buffer, input, output,
                   t_idx, ai, aj, outside, last, applied, in0, g0, current, next>>
    /\ UNCHANGED <<out0, codec>>

----------------------------------------------------------------------------
(* grid_synth::synthesize, in steps *)

\* a mutant of enabled: the flag is not read
enabledIgnored(t) == TRUE

\* transformation::enabled
enabled(t) == t.enabled

\* a mutant of CopyBack: the result is left in the buffer
CopyBackNever(result, grid) == grid

\* the tail of synthesize: when the result is not m_grid it is copied
\* into m_grid cell by cell (result is the pointer input after the loop)
CopyBack(result, grid) ==
    IF result # "m_grid" THEN CopyCells(Deref(result), grid, 0) ELSE grid

\* entry: the buffer is built and the two pointers are set
SynthesizeCall ==
    /\ pc = "idle"
    /\ buffer' = GridNew(m_grid.w, m_grid.h, 0)
    /\ input' = "m_grid"
    /\ output' = "buffer"
    /\ t_idx' = 1
    /\ g0' = m_grid
    /\ current' = m_grid
    /\ pc' = "loop"
    /\ UNCHANGED <<m_grid, m_alphabet, m_transformations, ai, aj, outside, last,
                   applied, in0, next>>
    /\ UNCHANGED <<out0, codec>>

\* the loop reaches a transformation: apply is entered if it is enabled
LoopStep ==
    /\ pc = "loop"
    /\ t_idx <= Len(m_transformations)
    /\ IF enabled(T)
       THEN pc' = "apply" /\ t_idx' = t_idx
       ELSE pc' = pc /\ t_idx' = t_idx + 1
    /\ UNCHANGED <<m_grid, m_alphabet, m_transformations, buffer, input, output,
                   ai, aj, outside, last, applied, in0, g0, current, next>>
    /\ UNCHANGED <<out0, codec>>

\* a mutant of StageEnd: the pointers are not swapped
StageEndNoSwap ==
    /\ pc = "scan"
    /\ ScanDone(Deref(input))
    /\ input' = input
    /\ output' = output
    /\ t_idx' = t_idx + 1
    /\ current' = next
    /\ pc' = "loop"
    /\ UNCHANGED <<m_grid, m_alphabet, m_transformations, buffer, ai, aj, outside,
                   last, applied, in0, g0, next>>
    /\ UNCHANGED <<out0, codec>>

\* apply has returned in the loop: the pointers are swapped
StageEnd ==
    /\ pc = "scan"
    /\ ScanDone(Deref(input))
    /\ input' = output
    /\ output' = input
    /\ t_idx' = t_idx + 1
    /\ current' = next
    /\ pc' = "loop"
    /\ UNCHANGED <<m_grid, m_alphabet, m_transformations, buffer, ai, aj, outside,
                   last, applied, in0, g0, next>>
    /\ UNCHANGED <<out0, codec>>

\* after the loop: the result is copied into m_grid when it is in the buffer
SynthesizeReturn ==
    /\ pc = "loop"
    /\ t_idx > Len(m_transformations)
    /\ m_grid' = CopyBack(input, m_grid)
    /\ pc' = "done"
    /\ UNCHANGED <<m_alphabet, m_transformations, buffer, input, output, t_idx,
                   ai, aj, outside, last, applied, in0, g0, current, next>>
    /\ UNCHANGED <<out0, codec>>

----------------------------------------------------------------------------
(* grid_synth::to_json and grid_synth::from_json.  A JSON object is a
   record, a JSON array a sequence; from_json yields [ok |-> FALSE] when it
   throws and the synthesizer it returns otherwise. *)

\* the object to_json writes for a grid
GridJson(g) == [width |-> g.w, height |-> g.h, data |-> g.d]

\* the object to_json writes for a transformation
TransformationJson(t) ==
    IF t.type = "random"
    THEN [name |-> t.name, enabled |-> t.enabled, type |-> "random"]
    ELSE [name |-> t.name, enabled |-> t.enabled, type |-> "rule_based",
          search |-> GridJson(t.search),
          replacements |->
              [k \in 1..Len(t.replacements) |->
                  [probability |-> t.replacements[k].probability,
                   grid |-> GridJson(t.replacements[k].replacement)]]]

to_json(grid, symbols, transformations) ==
    [version |-> 1,
     grid |-> GridJson(grid),
     alphabet |-> [symbols |-> get_symbols(symbols)],
     transformations |->
         [n \in 1..Len(transformations) |-> TransformationJson(transformations[n])]]

NoSynth == [ok |-> FALSE]

\* what a read of a key the object does not hold comes to: the library's
\* const operator[] asserts that the key is found, and where assertions
\* are compiled out the read is undefined behaviour
Undefined == [ok |-> FALSE, undefined |-> TRUE]

Done == [ok |-> TRUE]

\* an object may note under "mistyped" the keys whose value has a JSON type
\* the conversion from_json asks for throws on (a string for a number, a
\* number for a string, an array or an object)
Mistyped(obj, key) == "mistyped" \in DOMAIN obj /\ key \in obj.mistyped

\* an object may note under "null" the keys whose value is null
Null(obj, key) == "null" \in DOMAIN obj /\ key \in obj.null

\* obj[key] converted to the declared type, or indexed in its turn
Read(obj, key) ==
    IF key \notin DOMAIN obj THEN Undefined
    ELSE IF Mistyped(obj, key) \/ Null(obj, key) THEN NoSynth
    ELSE Done

\* obj[key] as the range of a for loop: the loop over null has no round,
\* the loop over a number or a string has one, whose reads throw
Range(obj, key) ==
    IF key \notin DOMAIN obj THEN Undefined
    ELSE IF Mistyped(obj, key) THEN NoSynth
    ELSE Done

Items(obj, key) == IF Null(obj, key) THEN <<>> ELSE obj[key]

\* the reads of the keys in order, from the n-th on: the first that fails
RECURSIVE ReadAll(_, _, _)
ReadAll(obj, keys, n) ==
    IF n > Len(keys) THEN Done
    ELSE IF ~Read(obj, keys[n]).ok THEN Read(obj, keys[n])
    ELSE ReadAll(obj, keys, n + 1)

\* a mutant of VersionSupported: the version is not looked at
VersionAny(version) == TRUE

\* from_json's version check
VersionSupported(version) == version = 1

\* the loops that fill a grid from a data array: y outer, x inner, n
\* counts the cells visited and is the index y * width + x; a cell whose
\* index the array does not hold is left as constructed
RECURSIVE SetCells(_, _, _)
SetCells(g, data, n) ==
    IF g.w <= 0 \/ g.h <= 0 \/ n >= g.w * g.h THEN g
    ELSE IF n < Len(data)
         THEN SetCells(Put(g, n % g.w, n \div g.w, data[n + 1]), data, n + 1)
         ELSE SetCells(g, data, n + 1)

\* the grid built from obj[key]: width, height and data are read, the grid
\* is constructed with the declared width and height (default 0), then
\* filled
GridFromJson(obj, key) ==
    IF ~Read(obj, key).ok THEN Read(obj, key)
    ELSE LET gj    == obj[key]
             reads == ReadAll(gj, <<"width", "height", "data">>, 1)
         IN  IF ~reads.ok THEN reads
             ELSE IF ResizeThrows(gj.width, gj.height) THEN NoSynth
             ELSE [ok |-> TRUE,
                   grid |-> SetCells(GridNew(gj.width, gj.height, 0), gj.data, 0)]

\* the reads of the alphabet loop, from the n-th symbol on
RECURSIVE SymbolFields(_, _)
SymbolFields(symbols, n) ==
    IF n > Len(symbols) THEN Done
    ELSE LET reads == ReadAll(symbols[n], <<"id", "name">>, 1)
         IN  IF ~reads.ok THEN reads ELSE SymbolFields(symbols, n + 1)

\* the alphabet built from the document
AlphabetFromJson(j) ==
    IF ~Read(j, "alphabet").ok THEN Read(j, "alphabet")
    ELSE IF ~Range(j.alphabet, "symbols").ok THEN Range(j.alphabet, "symbols")
    ELSE IF ~SymbolFields(Items(j.alphabet, "symbols"), 1).ok
    THEN SymbolFields(Items(j.alphabet, "symbols"), 1)
    ELSE [ok |-> TRUE,
          alphabet |-> AddSymbols(NoSymbols, Items(j.alphabet, "symbols"), 1)]

\* a rule's replacement list built from its array, from the n-th entry
\* on, appending to rs
RECURSIVE ReplacementsFromJson(_, _, _)
ReplacementsFromJson(list, n, rs) ==
    IF n > Len(list) THEN [ok |-> TRUE, replacements |-> rs]
    ELSE IF ~Read(list[n], "probability").ok THEN Read(list[n], "probability")
    ELSE LET made == GridFromJson(list[n], "grid")
         IN  IF ~made.ok THEN made
             ELSE ReplacementsFromJson(list, n + 1,
                      Append(rs, Entry(list[n].probability, made.grid)))

\* one entry of the transformations array: a transformation of the variant
\* its type names, and none (kept is FALSE) for any other type
TransformationFromJson(tj) ==
    LET reads == ReadAll(tj, <<"type", "name", "enabled">>, 1)
    IN  IF ~reads.ok THEN reads
        ELSE IF tj.type = "random"
        THEN [ok |-> TRUE, kept |-> TRUE,
              t |-> [type |-> "random", name |-> tj.name, enabled |-> tj.enabled]]
        ELSE IF tj.type = "rule_based"
        THEN LET search == GridFromJson(tj, "search")
             IN  IF ~search.ok THEN search
                 ELSE IF ~Range(tj, "replacements").ok THEN Range(tj, "replacements")
                 ELSE LET list == ReplacementsFromJson(Items(tj, "replacements"), 1, <<>>)
                      IN  IF ~list.ok THEN list
                          ELSE [ok |-> TRUE, kept |-> TRUE,
                                t |-> [type |-> "rule_based", name |-> tj.name,
                                       enabled |-> tj.enabled, search |-> search.grid,
                                       replacements |-> list.replacements]]
        ELSE [ok |-> TRUE, kept |-> FALSE]

\* the transformations loop, from the n-th entry on, appending to ts
RECURSIVE TransformationsFromJson(_, _, _)
TransformationsFromJson(list, n, ts) ==
    IF n > Len(list) THEN [ok |-> TRUE, ts |-> ts]
    ELSE LET one == TransformationFromJson(list[n])
         IN  IF ~one.ok THEN one
             ELSE TransformationsFromJson(list, n + 1,
                      IF one.kept THEN Append(ts, one.t) ELSE ts)

\* from_json: the synthesizer returned, NoSynth when an exception was
\* thrown (it is caught and thrown again, wrapped), Undefined when a key
\* was read that its object does not hold
from_json(j) ==
    IF ~Read(j, "version").ok THEN Read(j, "version")
    ELSE IF ~VersionSupported(j.version) THEN NoSynth
    ELSE LET made == GridFromJson(j, "grid")
         IN  IF ~made.ok THEN made
             ELSE LET symbols == AlphabetFromJson(j)
                  IN  IF ~symbols.ok THEN symbols
                      ELSE IF ~Range(j, "transformations").ok
                      THEN Range(j, "transformations")
                      ELSE LET list == TransformationsFromJson(
                                           Items(j, "transformations"), 1, <<>>)
                           IN  IF ~list.ok THEN list
                               ELSE [ok |-> TRUE,
                                     grid |-> made.grid,
                                     alphabet |-> symbols.alphabet,
                                     transformations |-> list.ts]

\* the ways a call that read a missing key may end: the process is ended
\* (by the assertion, or by the stray read), or the stray read yields a
\* value whose conversion throws
UndefinedEnds == {"aborted", "failed"}

\* what the codec leaves alone
stage == <<buffer, input, output, t_idx, ai, aj, outside, last, applied,
           in0, g0, current, next, out0>>

scratch == <<stage, selection>>

\* to_json on the synthesizer
ToJson ==
    /\ pc = "synth"
    /\ doc' = to_json(m_grid, m_alphabet, m_transformations)
    /\ op' = [name |-> "to_json"]
    /\ pc' = "document"
    /\ UNCHANGED <<m_grid, m_alphabet, m_transformations, parsed, scratch>>

\* from_json on the document at hand
FromJson ==
    /\ pc = "document"
    /\ op' = [name |-> "from_json", saved |-> op.name = "to_json"]
    /\ LET made == from_json(doc)
       IN  IF made = Undefined
           THEN parsed' = NoSynth /\ pc' \in UndefinedEnds
           ELSE /\ parsed' = made
                /\ pc' = IF made.ok THEN "loaded" ELSE "failed"
    /\ UNCHANGED <<m_grid, m_alphabet, m_transformations, doc, scratch>>

----------------------------------------------------------------------------
(* The calls on one grid object (held in m_grid; buffer is another grid) *)

GridCall(name, width, height, value, threw) ==
    [name |-> name, width |-> width, height |-> height, value |-> value,
     threw |-> threw, before |-> m_grid]

\* what the calls on a grid leave alone
pipeline == <<m_alphabet, m_transformations, input, output, t_idx, ai, aj,
              outside, last, applied, in0, g0, current, next, out0, doc, parsed,
              selection>>

\* grid::grid(width, height, default_value): on a throw there is no object
GridConstruct ==
    /\ pc = "new"
    /\ \E width \in Dimensions, height \in Dimensions, default_value \in Values :
         /\ op' = GridCall("grid", width, height, default_value,
                           ResizeThrows(width, height))
         /\ IF ResizeThrows(width, height)
            THEN pc' = "no_grid" /\ m_grid' = m_grid
            ELSE pc' = "grid" /\ m_grid' = GridNew(width, height, default_value)
    /\ UNCHANGED <<buffer, pipeline>>

\* grid::resize on the object
GridResize ==
    /\ pc = "grid"
    /\ \E new_width \in Dimensions, new_height \in Dimensions, default_value \in Values :
         /\ op' = GridCall("resize", new_width, new_height, default_value,
                           ResizeThrows(new_width, new_height))
         /\ m_grid' = IF ResizeThrows(new_width, new_height)
                      THEN ResizeThrown(m_grid, new_width, new_height)
                      ELSE resize(m_grid, new_width, new_height, default_value)
    /\ UNCHANGED <<pc, buffer, pipeline>>

\* grid::clear on the object
GridClear ==
    /\ pc = "grid"
    /\ \E value \in Values :
         /\ op' = GridCall("clear", m_grid.w, m_grid.h, value, FALSE)
         /\ m_grid' = clear(m_grid, value)
    /\ UNCHANGED <<pc, buffer, pipeline>>

\* grid::set(x, y, value) by a caller that checked in_bounds(x, y)
GridSet ==
    /\ pc = "grid"
    /\ \E x \in 0..MaxDim - 1, y \in 0..MaxDim - 1, value \in Values :
         /\ in_bounds(m_grid, x, y)
         /\ InVector(m_grid, x, y)
         /\ op' = GridCall("set", x, y, value, FALSE)
         /\ m_grid' = Put(m_grid, x, y, value)
    /\ UNCHANGED <<pc, buffer, pipeline>>

\* grid::operator=(other) with the other grid
GridAssign ==
    /\ pc = "grid"
    /\ op' = GridCall("assign", buffer.w, buffer.h, 0, FALSE)
    /\ m_grid' = buffer
    /\ UNCHANGED <<pc, buffer, pipeline>>

----------------------------------------------------------------------------
(* The calls on the alphabet of a synthesizer *)

\* what the calls on the alphabet leave alone
gridSide == <<m_grid, m_transformations, buffer, input, output, t_idx, pc, ai, aj,
              outside, last, applied, in0, g0, current, next, out0, doc, parsed,
              selection>>

AddSymbol ==
    /\ pc = "alphabet"
    /\ \E s \in Symbols :
         /\ op' = [name |-> "add_symbol", symbol |-> s, before |-> m_alphabet]
         /\ m_alphabet' = add_symbol(m_alphabet, s)
    /\ UNCHANGED gridSide

RemoveSymbol ==
    /\ pc = "alphabet"
    /\ \E id \in SymbolIds :
         /\ op' = [name |-> "remove_symbol", id |-> id, before |-> m_alphabet]
         /\ m_alphabet' = remove_symbol(m_alphabet, id)
    /\ UNCHANGED gridSide

\* the synthesizer is replaced by one loaded by from_json: its alphabet is
\* built from the document's symbols array
LoadSymbols ==
    /\ pc = "alphabet"
    /\ \E symbols \in SymbolArrays :
         /\ op' = [name |-> "from_json", symbols |-> symbols]
         /\ m_alphabet' = AddSymbols(NoSymbols, symbols, 1)
    /\ UNCHANGED gridSide

----------------------------------------------------------------------------
(* The editor's transformation stack (editor::edit_transformation_stack and
   editor::load_from_file).  One frame handles one click.  held lists, in
   the order of m_transformations, the objects the list's unique_ptrs own,
   each object numbered when it is made, so that a transformation can be
   told from another of the same name and type. *)

\* the names typed into the Name field
TypedNames == {"", "A"}

\* the files opened
EditorFiles ==
    {BaseDocument,
     [BaseDocument EXCEPT !.transformations = <<BaseDocument.transformations[1]>>],
     [BaseDocument EXCEPT !.version = 2],
     Without(BaseDocument, "alphabet")}

\* the object that is selected, 0 when there is none
SelectedObject ==
    IF m_selected_transform_index = -1 THEN 0
    ELSE held[m_selected_transform_index + 1]

\* the record of a click on the row i
StackCall(name, i) ==
    [name |-> name, i |-> i, selected |-> m_selected_transform_index,
     was |-> SelectedObject, row |-> held[i + 1]]

\* std::swap of the elements i and k (counted from 0) of a vector
Swapped(list, i, k) ==
    [list EXCEPT ![i + 1] = list[k + 1], ![k + 1] = list[i + 1]]

\* vector::erase of the element idx (counted from 0)
Erased(list, idx) ==
    [n \in 1..Len(list) - 1 |-> IF n <= idx THEN list[n] ELSE list[n + 1]]

\* the selected index after the rows i and k were swapped by a click on i
SelectedAfterSwap(selected, i, k) ==
    IF selected = i THEN k
    ELSE IF selected = k THEN i
    ELSE selected

\* a mutant of SelectedAfterRemove: an index above the erased one is kept
SelectedAfterRemoveStale(selected, idx) ==
    IF selected = idx THEN -1 ELSE selected

\* the selected index after the element idx was erased
SelectedAfterRemove(selected, idx) ==
    IF selected = idx THEN -1
    ELSE IF selected > idx THEN selected - 1
    ELSE selected

\* the transformation the Add button makes
NewTransformation(type, name) ==
    IF type = "random"
    THEN [type |-> "random", name |-> name, enabled |-> TRUE]
    ELSE [type |-> "rule_based", name |-> name, enabled |-> TRUE,
          search |-> GridNew(3, 3, WILDCARD),
          replacements |-> <<Entry(PUnit, GridNew(3, 3, WILDCARD))>>]

\* what a click on the stack leaves alone
synth == <<m_grid, m_alphabet, pc, stage, doc, parsed>>

\* the Select button of the row i
Select ==
    /\ pc = "editor"
    /\ \E i \in 0..Len(m_transformations) - 1 :
         /\ op' = StackCall("select", i)
         /\ m_selected_transform_index' = i
    /\ UNCHANGED <<m_transformations, held, allocated, synth>>

\* the up button of the row i > 0
MoveUp ==
    /\ pc = "editor"
    /\ \E i \in 1..Len(m_transformations) - 1 :
         /\ op' = StackCall("move_up", i)
         /\ m_transformations' = Swapped(m_transformations, i, i - 1)
         /\ held' = Swapped(held, i, i - 1)
         /\ m_selected_transform_index' =
                SelectedAfterSwap(m_selected_transform_index, i, i - 1)
    /\ UNCHANGED <<allocated, synth>>

\* the down button of the row i < size - 1
MoveDown ==
    /\ pc = "editor"
    /\ \E i \in 0..Len(m_transformations) - 2 :
         /\ op' = StackCall("move_down", i)
         /\ m_transformations' = Swapped(m_transformations, i, i + 1)
         /\ held' = Swapped(held, i, i + 1)
         /\ m_selected_transform_index' =
                SelectedAfterSwap(m_selected_transform_index, i, i + 1)
    /\ UNCHANGED <<allocated, synth>>

\* the Remove button of the row i: i is pushed on m_transforms_to_remove
\* and the list is processed after the table
Remove ==
    /\ pc = "editor"
    /\ \E i \in 0..Len(m_transformations) - 1 :
         /\ op' = StackCall("remove", i)
         /\ m_transformations' = Erased(m_transformations, i)
         /\ held' = Erased(held, i)
         /\ m_selected_transform_index' =
                SelectedAfterRemove(m_selected_transform_index, i)
    /\ UNCHANGED <<allocated, synth>>

\* the Add Transformation button: nothing happens while the name is empty
AddTransformation ==
    /\ pc = "editor"
    /\ allocated < MaxAllocated
    /\ \E type \in {"random", "rule_based"}, name \in TypedNames :
         /\ op' = [name |-> "add", type |-> type, typed |-> name]
         /\ IF name # ""
            THEN /\ m_transformations' =
                        Append(m_transformations, NewTransformation(type, name))
                 /\ held' = Append(held, allocated + 1)
                 /\ allocated' = allocated + 1
                 /\ m_selected_transform_index' = Len(m_transformations') - 1
            ELSE UNCHANGED <<m_transformations, selection>>
    /\ UNCHANGED synth

\* editor::load_from_file on a file that parses as JSON
LoadFromFile ==
    /\ pc = "editor"
    /\ \E file \in EditorFiles :
         LET loaded == from_json(file)
         IN  IF loaded.ok
             THEN /\ allocated + Len(loaded.transformations) <= MaxAllocated
                  /\ op' = [name |-> "load", ok |-> TRUE]
                  /\ m_grid' = loaded.grid
                  /\ m_alphabet' = loaded.alphabet
                  /\ m_transformations' = loaded.transformations
                  /\ held' = [n \in 1..Len(loaded.transformations) |-> allocated + n]
                  /\ allocated' = allocated + Len(loaded.transformations)
                  /\ m_selected_transform_index' = -1
                  /\ pc' = pc
             ELSE /\ op' = [name |-> "load", ok |-> FALSE]
                  /\ pc' \in (IF loaded = Undefined THEN {"aborted", pc} ELSE {pc})
                  /\ UNCHANGED <<m_grid, m_alphabet, m_transformations, selection>>
    /\ UNCHANGED <<stage, doc, parsed>>

----------------------------------------------------------------------------
(* Specifications *)

\* no call of synthesize, apply or from_json has been made
AtRest ==
    /\ input = "m_grid" /\ output = "buffer"
    /\ ai = 0 /\ aj = 0
    /\ outside = FALSE
    /\ last = NoEvent
    /\ applied = <<>>
    /\ in0 = NoGrid /\ g0 = NoGrid
    /\ next = NoGrid
    /\ out0 = NoGrid
    /\ parsed = NoSynth
    /\ op = NoCall

\* no editor: nothing is selected and no object is tracked
NoSelection ==
    /\ m_selected_transform_index = -1
    /\ held = <<>>
    /\ allocated = 0

\* the rest of the state before any call, the document aside
NoCallYet == AtRest /\ NoSelection

\* the rest of the state before any call
Idle == NoCallYet /\ doc = NoDocument

\* a synthesizer before synthesize() is called
Init ==
    /\ m_grid \in GridsOf(1..PipeMaxW, 1..PipeMaxH, Values)
    /\ m_alphabet \in Alphabets
    /\ m_transformations \in TransformationLists
    /\ buffer = NoGrid
    /\ t_idx = 0
    /\ pc = "idle"
    /\ current = NoGrid
    /\ Idle

Next ==
    \/ SynthesizeCall
    \/ LoopStep
    \/ ApplyBegin
    \/ RuleAnchor
    \/ RandomCell
    \/ StageEnd
    \/ SynthesizeReturn

Spec == Init /\ [][Next]_vars

\* a rule-based transformation about to be applied by a direct caller to
\* an input (held in m_grid) and an output buffer (held in buffer)
InitApply ==
    /\ \/ /\ m_grid \in GridsOf(1..MaxW, 1..MaxH, Values)
          /\ \E t \in ApplyRules : m_transformations = <<t>>
          /\ buffer \in OutputBuffers(m_grid)
       \/ /\ m_grid \in CrossInputs
          /\ m_transformations = <<CrossRule>>
          /\ buffer = GridNew(3, 3, 0)
    /\ m_alphabet = [id \in 1..2 |-> SymbolName(id)]
    /\ t_idx = 1
    /\ pc = "apply"
    /\ current = m_grid
    /\ Idle

NextApply ==
    \/ ApplyBegin
    \/ RuleAnchor
    \/ ApplyReturn

SpecApply == InitApply /\ [][NextApply]_vars

\* a transformation of either variant about to be applied by a direct
\* caller; the alphabet may register any of the ids -1..MaxSym, or none
InitCall ==
    /\ m_grid \in GridsOf(1..MaxW, 1..MaxH, Values)
    /\ \/ /\ \E t \in RulesWriting : m_transformations = <<t>>
          /\ m_alphabet = [id \in 1..2 |-> SymbolName(id)]
       \/ /\ m_transformations = <<RandomT(TRUE)>>
          /\ m_alphabet \in CallAlphabets
    /\ buffer \in OutputBuffers(m_grid)
    /\ t_idx = 1
    /\ pc = "apply"
    /\ current = m_grid
    /\ Idle

NextCall ==
    \/ ApplyBegin
    \/ RuleAnchor
    \/ RandomCell
    \/ ApplyReturn

SpecCall == InitCall /\ [][NextCall]_vars

\* a grid about to be constructed, and another grid to assign from
InitGrid ==
    /\ m_grid = NoGrid
    /\ buffer \in GridsOf({1}, 1..MaxDim, {MaxVal})
    /\ m_alphabet = <<>>
    /\ m_transformations = <<>>
    /\ t_idx = 0
    /\ pc = "new"
    /\ current = NoGrid
    /\ Idle

NextGrid ==
    \/ GridConstruct
    \/ GridResize
    \/ GridClear
    \/ GridSet
    \/ GridAssign

SpecGrid == InitGrid /\ [][NextGrid]_vars

\* the alphabet of a new synthesizer
InitAlphabet ==
    /\ m_grid = NoGrid
    /\ buffer = NoGrid
    /\ m_alphabet = NoSymbols
    /\ m_transformations = <<>>
    /\ t_idx = 0
    /\ pc = "alphabet"
    /\ current = NoGrid
    /\ Idle

NextAlphabet ==
    \/ AddSymbol
    \/ RemoveSymbol
    \/ LoadSymbols

SpecAlphabet == InitAlphabet /\ [][NextAlphabet]_vars

\* a synthesizer about to be written by to_json, or a document about to be
\* read by from_json
InitJson ==
    /\ \/ /\ pc = "synth"
          /\ m_grid \in SavedGrids
          /\ m_alphabet \in Alphabets
          /\ m_transformations \in SavedLists
          /\ doc = NoDocument
       \/ /\ pc = "document"
          /\ m_grid = NoGrid
          /\ m_alphabet = NoSymbols
          /\ m_transformations = <<>>
          /\ doc \in Documents \cup DefectiveDocuments
    /\ buffer = NoGrid
    /\ t_idx = 0
    /\ current = NoGrid
    /\ NoCallYet

NextJson ==
    \/ ToJson
    \/ FromJson

SpecJson == InitJson /\ [][NextJson]_vars

\* the editor as constructed: a 16 x 16 grid of empty cells, the symbols F
\* and G, a random transformation and the cross rule, nothing selected
InitEditor ==
    /\ pc = "editor"
    /\ m_grid = GridNew(16, 16, EMPTY)
    /\ m_alphabet = AddSymbols(NoSymbols, <<[id |-> 1, name |-> "F"], [id |-> 2, name |-> "G"]>>, 1)
    /\ m_transformations = <<RandomT(TRUE), CrossRule>>
    /\ m_selected_transform_index = -1
    /\ held = <<1, 2>>
    /\ allocated = 2
    /\ buffer = NoGrid
    /\ t_idx = 0
    /\ current = NoGrid
    /\ doc = NoDocument
    /\ AtRest

NextEditor ==
    \/ Select
    \/ MoveUp
    \/ MoveDown
    \/ Remove
    \/ AddTransformation
    \/ LoadFromFile

SpecEditor == InitEditor /\ [][NextEditor]_vars

----------------------------------------------------------------------------
(* Properties of synthesize (under Spec) *)

NoneEnabled == \A n \in 1..Len(m_transformations) : ~m_transformations[n].enabled

EnabledCount == Cardinality({n \in 1..Len(m_transformations) : m_transformations[n].enabled})

\* whether rule t would rewrite some cell of g: its search matches somewhere
\* and the replacement it may take holds another value there
WouldRewrite(t, g) ==
    /\ t.type = "rule_based"
    /\ \E i \in 0..g.w - 1, j \in 0..g.h - 1 :
         /\ AnchorEvent(g, t, i, j, 0).k # 0
         /\ Get(t.replacements[1].replacement, 0, 0) # Get(g, i, j)

\* C1: when no transformation of the list is enabled (the empty list
\* included), synthesize() returns with m_grid as it was on entry: the same
\* width, the same height and the same value in every cell.
C1_DisabledLeaveGrid ==
    (pc = "done" /\ NoneEnabled) =>
        /\ m_grid.w = g0.w
        /\ m_grid.h = g0.h
        /\ m_grid.d = g0.d

\* C1's case: synthesize() has returned over a list that holds a disabled
\* rule which, enabled, would have rewritten the grid.
C1_Witness ==
    /\ pc = "done"
    /\ NoneEnabled
    /\ \E n \in 1..Len(m_transformations) : WouldRewrite(m_transformations[n], g0)

\* C2: the grids of synthesize() are those of the reference fold (current
\* starts as the stored grid and becomes apply(current) at each enabled
\* transformation, in list order): every stage reads current, a finished
\* stage has produced apply(current) in full, and the grid stored when
\* synthesize() returns is the fold's final current.
C2_ReferenceFold ==
    /\ pc \in {"loop", "apply", "scan"} => Deref(input) = current
    /\ (pc = "scan" /\ ScanDone(Deref(input))) => Deref(output) = next
    /\ pc = "done" => m_grid = current

\* C2's case: synthesize() has returned after an odd number of enabled
\* stages, so the result was produced in the buffer, and it differs from
\* the grid on entry.
C2_Witness ==
    /\ pc = "done"
    /\ EnabledCount % 2 = 1
    /\ m_grid # g0

\* the same after an even, non-zero number of enabled stages
C2_WitnessEven ==
    /\ pc = "done"
    /\ EnabledCount = 2
    /\ m_grid # g0

----------------------------------------------------------------------------
(* Properties of rule_based_transformation::apply (under SpecApply, where
   the input is m_grid, the output is buffer and in0 is the input on entry) *)

Rule == m_transformations[1]

Replacement(k) == Rule.replacements[k].replacement

Cells(g) == (0..g.w - 1) \X (0..g.h - 1)

\* the search pattern placed at (i, j) lies entirely inside g
Fits(g, s, i, j) == i + s.w <= g.w /\ j + s.h <= g.h

\* every search cell is a wildcard or equals the cell of g under it
CellsAgree(g, s, i, j) ==
    \A c \in Cells(s) :
        Get(s, c[1], c[2]) = WILDCARD \/ Get(g, i + c[1], j + c[2]) = Get(s, c[1], c[2])

\* C3, as claimed: an anchor is tested exactly when the search pattern fits
\* entirely inside the input there, and it matches exactly when it fits and
\* every search cell is a wildcard or equals the input cell under it.
C3_AnchorsAndMatches ==
    last.i >= 0 =>
        /\ last.tested <=> Fits(in0, Rule.search, last.i, last.j)
        /\ last.match <=> (Fits(in0, Rule.search, last.i, last.j)
                            /\ CellsAgree(in0, Rule.search, last.i, last.j))

\* the same for the search patterns with a cell (width and height >= 1)
C3_NonEmptySearch ==
    (last.i >= 0 /\ Rule.search.w >= 1 /\ Rule.search.h >= 1) =>
        /\ last.tested <=> Fits(in0, Rule.search, last.i, last.j)
        /\ last.match <=> (Fits(in0, Rule.search, last.i, last.j)
                            /\ CellsAgree(in0, Rule.search, last.i, last.j))

\* the sum of the first k probabilities of a replacement list
RECURSIVE Cumulative(_, _)
Cumulative(rs, k) == IF k = 0 THEN 0 ELSE Cumulative(rs, k - 1) + rs[k].probability

\* the first entry whose cumulative sum reaches r, 0 when none does
FirstReaching(rs, r) ==
    LET reaching == {k \in 1..Len(rs) : Cumulative(rs, k) >= r}
    IN  IF reaching = {} THEN 0
        ELSE CHOOSE k \in reaching : \A m \in reaching : k <= m

\* a step of the scan that finished an anchor iteration
AnchorStep == pc = "scan" /\ pc' = "scan" /\ <<ai, aj>>' # <<ai, aj>>

\* C4: every iteration at a matched anchor with draw r applies the first
\* replacement whose cumulative probability is >= r and no other: its
\* top-left cell, unless a wildcard, is in the output at the anchor and one
\* entry is added to the replacements applied; when no cumulative sum
\* reaches r (an empty list included) the output is left as it was.
C4_CumulativePick ==
    [][(AnchorStep /\ last'.match) =>
          /\ last'.k = FirstReaching(Rule.replacements, last'.r)
          /\ last'.k = 0 => (buffer' = buffer /\ applied' = applied)
          /\ last'.k # 0 =>
                /\ applied' = Append(applied, [i |-> ai, j |-> aj, k |-> last'.k])
                /\ Get(Replacement(last'.k), 0, 0) # WILDCARD =>
                      Get(buffer', ai, aj) = Get(Replacement(last'.k), 0, 0)]_vars

\* C4's case: the draw passed the first replacement's probability and met
\* the cumulative sum of the first two exactly, and the second was applied.
C4_Witness ==
    /\ last.match
    /\ last.k = 2
    /\ Rule.replacements[1].probability < last.r
    /\ Cumulative(Rule.replacements, 2) = last.r
    /\ Get(buffer, last.i, last.j) = Mark(2)

\* ... and the case where the list is not empty and no sum reaches the draw
C4_WitnessNone ==
    /\ last.match
    /\ last.k = 0
    /\ Len(Rule.replacements) = 2

\* the cell (x, y) lies under a non-wildcard cell of a replacement applied
\* at some matched anchor
Covered(x, y) ==
    \E n \in 1..Len(applied) :
        LET a == applied[n]
            R == Replacement(a.k)
        IN  /\ <<x - a.i, y - a.j>> \in Cells(R)
            /\ Get(R, x - a.i, y - a.j) # WILDCARD

\* C5, as claimed: when apply has returned, every output cell that is not
\* under a non-wildcard cell of a replacement applied at a matched anchor
\* holds the input's value.  (Stated for the calls whose writes all stayed
\* inside the output's vector; the others are undefined behaviour.)
C5_PassThrough ==
    (pc = "returned" /\ ~outside) =>
        \A c \in Cells(buffer) :
            ~Covered(c[1], c[2]) => Get(buffer, c[1], c[2]) = Get(in0, c[1], c[2])

\* the vector indices the replacement applied as a writes to
WrittenBy(a) ==
    {Index(buffer, a.i + c[1], a.j + c[2]) :
        c \in {c \in Cells(Replacement(a.k)) : Get(Replacement(a.k), c[1], c[2]) # WILDCARD}}

\* the vector indices of the cells the replacement applied as a lies over
Under(a) ==
    {Index(buffer, a.i + c[1], a.j + c[2]) :
        c \in {c \in Cells(Replacement(a.k)) : in_bounds(buffer, a.i + c[1], a.j + c[2])}}

\* no other applied replacement writes a cell the n-th one lies over
Alone(n) ==
    \A m \in 1..Len(applied) : m # n => WrittenBy(applied[m]) \cap Under(applied[n]) = {}

\* the cross scenario of editor::editor: the centre changes from 2 to 1
\* and the four corners keep the input's values
CrossOutcome ==
    /\ Get(in0, 1, 1) = 2
    /\ Get(buffer, 1, 1) = 1
    /\ \A c \in {<<0, 0>>, <<2, 0>>, <<0, 2>>, <<2, 2>>} :
          Get(buffer, c[1], c[2]) = Get(in0, c[1], c[2])

\* C6, as claimed: when apply has returned, for a replacement R applied at
\* (i, j) whose cells no other anchor wrote, every grid cell under a
\* non-wildcard cell of R holds that cell's value and every grid cell under a
\* wildcard cell of R holds the input's value; and the cross scenario ends
\* with the centre changed from 2 to 1 and the corners as in the input.
\* (Stated for the calls whose writes all stayed inside the output's
\* vector; the others are undefined behaviour.)
C6_ReplacementWritten ==
    (pc = "returned" /\ ~outside) =>
        /\ \A n \in 1..Len(applied) :
              Alone(n) =>
                \A c \in Cells(Replacement(applied[n].k)) :
                    LET R == Replacement(applied[n].k)
                        x == applied[n].i + c[1]
                        y == applied[n].j + c[2]
                    IN  in_bounds(buffer, x, y) =>
                          IF Get(R, c[1], c[2]) # WILDCARD
                          THEN Get(buffer, x, y) = Get(R, c[1], c[2])
                          ELSE Get(buffer, x, y) = Get(in0, x, y)
        /\ Rule = CrossRule => CrossOutcome

\* the cross scenario alone
C6_CrossScenario == (pc = "returned" /\ Rule = CrossRule) => CrossOutcome

AllWildcard(g) == \A c \in Cells(g) : Get(g, c[1], c[2]) = WILDCARD

\* C7: when every replacement grid of the rule holds only wildcards, the
\* output equals the input in every cell from the copy on, whatever
\* anchors match and whatever is drawn.
C7_WildcardReplacementNoOp ==
    (pc \in {"scan", "returned"}
     /\ \A k \in 1..Len(Rule.replacements) : AllWildcard(Replacement(k))) =>
        /\ buffer.w = in0.w
        /\ buffer.h = in0.h
        /\ buffer.d = in0.d

\* C7's case: apply has returned after applying all-wildcard replacements
\* at two anchors or more.
C7_Witness ==
    /\ pc = "returned"
    /\ \A k \in 1..Len(Rule.replacements) : AllWildcard(Replacement(k))
    /\ Len(applied) >= 2

SingleCertain ==
    Len(Rule.replacements) = 1 /\ Rule.replacements[1].probability = PUnit

\* C8: with exactly one replacement of probability 1.0, an iteration at a
\* matched anchor applies it whatever the draw: it is the entry picked and,
\* unless the write ended the process, its top-left cell (when not a
\* wildcard) is in the output at the anchor.
C8_CertainReplacement ==
    (SingleCertain /\ last.match) =>
        /\ last.k = 1
        /\ (pc # "crashed" /\ Get(Replacement(1), 0, 0) # WILDCARD) =>
              Get(buffer, last.i, last.j) = Get(Replacement(1), 0, 0)

\* C8's case: a matched anchor with the largest draw, 1.0, and the
\* replacement written.
C8_Witness ==
    /\ SingleCertain
    /\ last.match
    /\ last.r = PUnit
    /\ last.k = 1
    /\ Get(buffer, last.i, last.j) = Mark(1)

\* C9, as claimed: a search pattern of width 0 or height 0 matches at no
\* anchor, and apply returns an output equal to the input.
C9_EmptySearchNoMatch ==
    (Rule.search.w = 0 \/ Rule.search.h = 0) =>
        /\ ~last.match
        /\ pc = "returned" => buffer = in0

SearchLarger == Rule.search.w > m_grid.w \/ Rule.search.h > m_grid.h

\* C10: a search pattern wider or taller than the input is tested at no
\* anchor and matches at none, nothing is applied or written outside the
\* grid, the call does not end in an error, and the output equals the
\* input from the copy on.
C10_LargerSearchNoOp ==
    SearchLarger =>
        /\ ~last.tested /\ ~last.match
        /\ applied = <<>>
        /\ ~outside
        /\ pc # "crashed"
        /\ pc \in {"scan", "returned"} => buffer = in0

\* C10's case: apply has returned for an all-wildcard search pattern wider
\* than the input, a certain replacement and an output buffer that had
\* other dimensions.
C10_Witness ==
    /\ pc = "returned"
    /\ Rule.search.w > m_grid.w
    /\ Rule.search.h >= 1
    /\ AllWildcard(Rule.search)
    /\ SingleCertain
    /\ last.i = m_grid.w - 1 /\ last.j = m_grid.h - 1

----------------------------------------------------------------------------
(* Properties of a direct call of apply, of either variant (under SpecCall,
   where the input is m_grid, the output is buffer, in0 and out0 are the two
   grids on entry and next is the output the same call, with the same
   draws, builds in a buffer that was empty) *)

Registered == DOMAIN m_alphabet

RandomCall == T.type = "random"

\* C11: Random apply over a non-empty alphabet returns, every cell of the
\* output then holds an id registered in the alphabet (EMPTY and WILDCARD
\* appear only when registered), and at every cell of the scan every
\* registered id can be the one written.
C11_RandomFillsRegistered ==
    (RandomCall /\ Registered # {}) =>
        /\ pc # "crashed"
        /\ pc = "returned" =>
              \A c \in Cells(buffer) : Get(buffer, c[1], c[2]) \in Registered
        /\ (pc = "scan" /\ ~ScanDone(buffer)) =>
              \A id \in Registered :
                  ENABLED (RandomCell /\ Get(buffer', ai, aj) = id)

\* C11's case: Random apply has returned over an alphabet of two ids, 0 not
\* among them, into a buffer that held an unregistered value, and the
\* output holds both ids.
C11_Witness ==
    /\ RandomCall
    /\ pc = "returned"
    /\ Cardinality(Registered) = 2
    /\ EMPTY \notin Registered
    /\ \A id \in Registered : \E c \in Cells(buffer) : Get(buffer, c[1], c[2]) = id
    /\ \E k \in 1..Len(out0.d) : out0.d[k] \notin Registered

\* C12, as claimed: Random apply over an alphabet with no symbol does not
\* return, and when it has ended no cell of the output was written.
C12_EmptyAlphabetError ==
    (RandomCall /\ Registered = {}) =>
        /\ pc # "returned"
        /\ pc = "crashed" => buffer = EnsureDimensions(in0, out0)

\* C13: for both variants, from the entry of apply on the input is as it
\* was, the output has the input's width and height and as many cells,
\* whatever the output buffer was before; and the output returned equals
\* the one the same call builds in a buffer that was empty.
C13_ApplyFrame ==
    pc \in {"scan", "returned"} =>
        /\ m_grid = in0
        /\ buffer.w = in0.w /\ buffer.h = in0.h
        /\ Len(buffer.d) = in0.w * in0.h
        /\ pc = "returned" => buffer = next

\* C13's case: a rule has returned after applying a replacement, into a
\* buffer that had other dimensions and other cell values than the input.
C13_Witness ==
    /\ ~RandomCall
    /\ pc = "returned"
    /\ applied # <<>>
    /\ out0.w > in0.w /\ out0.h > in0.h
    /\ \A k \in 1..Len(in0.d) : out0.d[k] # in0.d[k]

\* the same for Random: the buffer was smaller than the input
C13_WitnessRandom ==
    /\ RandomCall
    /\ pc = "returned"
    /\ Registered # {}
    /\ out0.w < in0.w /\ out0.h < in0.h
    /\ out0.d[1] \notin Registered

----------------------------------------------------------------------------
(* Properties of the grid (under SpecGrid, where m_grid is the object and op
   the last call on it) *)

CellCount(g) == Len(g.d) = g.w * g.h

\* a grid of positive width and height with width * height cells
Positive(g) == g.w >= 1 /\ g.h >= 1 /\ CellCount(g)

\* C14, as claimed: the constructor with width <= 0 or height <= 0 throws
\* and leaves no grid, and with both dimensions positive it does not throw.
C14_ConstructorRejects ==
    op.name = "grid" =>
        /\ (op.width <= 0 \/ op.height <= 0) => (op.threw /\ pc = "no_grid")
        /\ (op.width > 0 /\ op.height > 0) => (~op.threw /\ pc = "grid")

\* the half of C14 that holds: positive dimensions never fail, and yield a
\* grid of width * height cells of the default value
C14_PositiveSucceeds ==
    (op.name = "grid" /\ op.width > 0 /\ op.height > 0) =>
        /\ ~op.threw /\ pc = "grid"
        /\ m_grid = [w |-> op.width, h |-> op.height,
                     d |-> [k \in 1..op.width * op.height |-> op.value]]

\* C15, as claimed: a constructed grid stores width * height cells after
\* any sequence of calls.  (Stated for the calls on a grid of positive
\* width and height that stored width * height cells.)
C15_CellCount ==
    (pc = "grid" /\ op.name # "grid" /\ Positive(op.before)) => CellCount(m_grid)

\* the same as long as no resize has thrown
C15_CellCountUnlessThrown ==
    (pc = "grid" /\ CellCount(op.before) /\ ~op.threw) => CellCount(m_grid)

\* under Spec: synthesize() keeps the count in the stored grid and in its
\* buffer
C15_SynthesizeKeepsCount == CellCount(m_grid) /\ CellCount(buffer)

\* C16, as claimed: after a resize every cell of the grid equals the
\* default passed.  (Stated for the resizes of a grid of positive width and
\* height to a positive width and height.)
C16_ResizeRefills ==
    (op.name = "resize" /\ Positive(op.before) /\ op.width >= 1 /\ op.height >= 1) =>
        \A k \in 1..Len(m_grid.d) : m_grid.d[k] = op.value

\* what resize does keep: the first cells of the vector, as many as fit
C16_ResizeKeepsPrefix ==
    (op.name = "resize" /\ ~op.threw) =>
        \A k \in 1..Len(m_grid.d) :
            m_grid.d[k] = IF k <= Len(op.before.d) THEN op.before.d[k] ELSE op.value

----------------------------------------------------------------------------
(* Properties of the alphabet (under SpecAlphabet, where op is the last call) *)

\* the first entry of a symbols array with the given id
FirstWith(symbols, id) ==
    symbols[CHOOSE n \in 1..Len(symbols) :
                /\ symbols[n].id = id
                /\ \A m \in 1..n - 1 : symbols[m].id # id]

\* C17: the alphabet lists its symbols in strictly ascending id order (so
\* one symbol per id at most) and lists every id it holds; add_symbol with
\* a registered id leaves the alphabet as it was, with an id that is not
\* registered it registers the symbol; and the alphabet from_json builds
\* holds, for every id of the document, the name of the first entry with
\* that id.
C17_AlphabetUnique ==
    LET listed == get_symbols(m_alphabet)
    IN  /\ \A a \in 1..Len(listed), b \in 1..Len(listed) :
              a < b => listed[a].id < listed[b].id
        /\ {listed[n].id : n \in 1..Len(listed)} = DOMAIN m_alphabet
        /\ \A n \in 1..Len(listed) : listed[n].name = m_alphabet[listed[n].id]
        /\ op.name = "add_symbol" =>
              IF op.symbol.id \in DOMAIN op.before
              THEN m_alphabet = op.before
              ELSE /\ m_alphabet[op.symbol.id] = op.symbol.name
                   /\ \A id \in DOMAIN op.before : m_alphabet[id] = op.before[id]
        /\ op.name = "from_json" =>
              /\ DOMAIN m_alphabet = {op.symbols[n].id : n \in 1..Len(op.symbols)}
              /\ \A id \in DOMAIN m_alphabet :
                    m_alphabet[id] = FirstWith(op.symbols, id).name

\* C17's case: add_symbol was called with a registered id and another name
\* on an alphabet of two symbols or more.
C17_Witness ==
    /\ op.name = "add_symbol"
    /\ op.symbol.id \in DOMAIN op.before
    /\ op.before[op.symbol.id] # op.symbol.name
    /\ Cardinality(DOMAIN m_alphabet) >= 2

\* ... and from_json read a document that repeats an id under another name
C17_WitnessDocument ==
    /\ op.name = "from_json"
    /\ Len(op.symbols) = 3
    /\ op.symbols[1].id = op.symbols[3].id
    /\ op.symbols[1].name # op.symbols[3].name
    /\ op.symbols[2].id < op.symbols[1].id

----------------------------------------------------------------------------
(* Properties of to_json and from_json (under SpecJson, where doc is the
   document and parsed what from_json returned for it) *)

\* from_json has run on the document to_json wrote for the synthesizer
RoundTrip == op.name = "from_json" /\ op.saved

\* the synthesizer read back is the one written
SameSynth ==
    /\ parsed.ok
    /\ parsed.grid.w = m_grid.w /\ parsed.grid.h = m_grid.h
    /\ parsed.grid.d = m_grid.d
    /\ parsed.alphabet = m_alphabet
    /\ Len(parsed.transformations) = Len(m_transformations)
    /\ \A n \in 1..Len(m_transformations) :
          parsed.transformations[n] = m_transformations[n]

\* a grid a constructor given non-negative dimensions, or a resize to such,
\* leaves
Plain(g) == g.w >= 0 /\ g.h >= 0 /\ CellCount(g)

\* every grid of the synthesizer is plain
PlainSynth ==
    /\ Plain(m_grid)
    /\ \A n \in 1..Len(m_transformations) :
          m_transformations[n].type = "rule_based" =>
              /\ Plain(m_transformations[n].search)
              /\ \A k \in 1..Len(m_transformations[n].replacements) :
                    Plain(m_transformations[n].replacements[k].replacement)

\* C18, as claimed: from_json(to_json(s)) succeeds and has the grid, the
\* alphabet and the transformation list of s, for every synthesizer s.
C18_RoundTrip == RoundTrip => SameSynth

\* the same for the synthesizers whose grids all have non-negative width
\* and height and width * height cells
C18_RoundTripPlain == (RoundTrip /\ PlainSynth) => SameSynth

\* C19: from_json on a document whose version is not 1 fails and returns
\* no synthesizer, whatever else the document holds.
C19_VersionRejected ==
    (op.name = "from_json" /\ Read(doc, "version").ok /\ doc.version # 1) =>
        (pc = "failed" /\ parsed = NoSynth)

\* C19's case: from_json has run on a document of version 2 that it reads
\* into a synthesizer with a transformation once the version is 1.
C19_Witness ==
    /\ op.name = "from_json"
    /\ doc \in Documents
    /\ doc.version = 2
    /\ from_json([doc EXCEPT !.version = 1]).ok
    /\ Len(from_json([doc EXCEPT !.version = 1]).transformations) >= 1

\* the data array of a grid object that declares a positive width and
\* height is shorter than width * height
Short(gj) ==
    gj.width >= 1 /\ gj.height >= 1 /\ Len(gj.data) < gj.width * gj.height

\* the grid, a search pattern or a replacement grid of the document is short
ShortData(j) ==
    \/ Short(j.grid)
    \/ \E n \in 1..Len(j.transformations) :
          /\ j.transformations[n].type = "rule_based"
          /\ \/ Short(j.transformations[n].search)
             \/ \E k \in 1..Len(j.transformations[n].replacements) :
                   Short(j.transformations[n].replacements[k].grid)

\* C20, as claimed: from_json on a document with a data array shorter than
\* the declared width * height fails and returns no synthesizer.
C20_ShortDataRejected ==
    (op.name = "from_json" /\ doc \in Documents /\ ShortData(doc)) =>
        (pc = "failed" /\ parsed = NoSynth)

\* C21, as claimed: from_json on a document with a required field absent,
\* or of the wrong JSON type, fails with the wrapped error and returns no
\* synthesizer.
C21_DefectRejected ==
    (op.name = "from_json" /\ doc \in DefectiveDocuments) =>
        (pc = "failed" /\ parsed = NoSynth)

\* C22, as claimed: a successful from_json returns one transformation per
\* entry of the transformations array, in the array's order, the i-th of
\* the variant the i-th entry's type names.
C22_OnePerEntry ==
    (/\ op.name = "from_json"
     /\ doc \in Documents
     /\ doc.grid.width >= 1
     /\ doc.grid.height >= 1
     /\ pc = "loaded") =>
        /\ Len(parsed.transformations) = Len(doc.transformations)
        /\ \A n \in 1..Len(doc.transformations) :
              parsed.transformations[n].type = doc.transformations[n].type

\* C23: no step of synthesize() changes the alphabet, the transformation
\* list (its order, the names, the enabled flags, the search and the
\* replacement grids of its rules), or the width, the height and the
\* number of cells of the stored grid: only the values of cells change.
C23_OnlyCells ==
    [][/\ m_alphabet' = m_alphabet
       /\ m_transformations' = m_transformations
       /\ m_grid'.w = m_grid.w
       /\ m_grid'.h = m_grid.h
       /\ Len(m_grid'.d) = Len(m_grid.d)]_vars

\* C23's case: synthesize() has returned after two enabled stages, a rule
\* among them, wrote the stored grid in between, and left it with other
\* cells than it had.
C23_Witness ==
    /\ pc = "done"
    /\ m_grid # g0
    /\ Len(m_transformations) = 2
    /\ \A n \in 1..2 : enabled(m_transformations[n])
    /\ \E n \in 1..2 : m_transformations[n].type = "rule_based"

\* the enabled stages synthesize() has been through
StagesDone == Cardinality({n \in 1..(t_idx - 1) : enabled(m_transformations[n])})

\* C24: during synthesize() the input and the output pointer name two
\* different grids, the stored grid and the buffer; the input is the
\* stored grid after an even number of enabled stages and the buffer
\* after an odd number; and while a stage runs its input has the cells it
\* had when the stage began.
C24_DoubleBuffer ==
    pc \in {"loop", "apply", "scan", "done"} =>
        /\ input # output
        /\ {input, output} = {"m_grid", "buffer"}
        /\ input = (IF StagesDone % 2 = 0 THEN "m_grid" ELSE "buffer")
        /\ pc = "scan" => Deref(input) = in0

\* C24's case: the second enabled stage runs, reads the buffer and has
\* written the stored grid.
C24_Witness ==
    /\ pc = "scan"
    /\ t_idx = 2
    /\ StagesDone = 1
    /\ input = "buffer"
    /\ m_grid # out0
    /\ buffer = in0

\* C25: in a RuleBased apply every anchor visited matches exactly when the
\* search pattern fits at it and agrees with the cells the input had when
\* the call began, whatever earlier anchors have written.
C25_MatchReadsInput ==
    (pc \in {"scan", "returned"} /\ T.type = "rule_based" /\ last.i >= 0) =>
        last.match = (/\ AnchorTested(in0, T.search, last.i, last.j)
                      /\ Match(in0, T.search, last.i, last.j))

\* C25's case: the anchor (1, 0) matched on a cell of the input that the
\* replacement written at (0, 0) had already covered in the output with
\* another value.
C25_Witness ==
    /\ pc = "scan"
    /\ last.i = 1 /\ last.j = 0 /\ last.match
    /\ T.search.w = 1 /\ T.search.h = 1
    /\ Get(T.search, 0, 0) # WILDCARD
    /\ applied # <<>>
    /\ applied[1].i = 0 /\ applied[1].j = 0
    /\ LET written == T.replacements[applied[1].k].replacement
       IN  /\ written.w >= 2 /\ written.h >= 1
           /\ Get(written, 1, 0) \notin {WILDCARD, Get(in0, 1, 0)}

\* what the replacement applied at a leaves on a grid of the output's shape
\* that held wildcards: the cells it does not write stay wildcards
Stamp(a) ==
    WriteReplacement([buffer EXCEPT !.d = [c \in DOMAIN buffer.d |-> WILDCARD]],
                     T.replacements[a.k].replacement, a.i, a.j)

\* the applied anchors that write the c-th cell of the output
Writers(c) == {n \in 1..Len(applied) : Stamp(applied[n]).d[c] # WILDCARD}

\* a is visited after b: i is the outer loop, j the inner
Later(a, b) == a.i > b.i \/ (a.i = b.i /\ a.j > b.j)

LastWriter(c) ==
    CHOOSE n \in Writers(c) :
        \A m \in Writers(c) \ {n} : Later(applied[n], applied[m])

\* C26: when RuleBased apply returns, a cell of the output that the
\* replacements of one or more matched anchors wrote holds the value
\* written by the one of these anchors that comes last in the scan, i
\* outer and j inner.
C26_LastWriteWins ==
    (pc = "returned" /\ T.type = "rule_based") =>
        \A c \in DOMAIN buffer.d :
            Writers(c) # {} =>
                /\ \E n \in Writers(c) :
                      \A m \in Writers(c) \ {n} : Later(applied[n], applied[m])
                /\ buffer.d[c] = Stamp(applied[LastWriter(c)]).d[c]

\* C26's case: apply has returned, no write left the grid, and a cell was
\* written by two anchors with different values.
C26_Witness ==
    /\ pc = "returned"
    /\ ~outside
    /\ \E c \in DOMAIN buffer.d :
          \E n, m \in Writers(c) :
              /\ Later(applied[n], applied[m])
              /\ Stamp(applied[n]).d[c] # Stamp(applied[m]).d[c]
              /\ buffer.d[c] = Stamp(applied[n]).d[c]

\* C27, as claimed: every cell that a replacement applied by RuleBased
\* apply writes has coordinates (i + x, j + y) in bounds of the output
\* grid.
C27_WritesInBounds ==
    (pc \in {"scan", "returned", "crashed"} /\ T.type = "rule_based") =>
        \A n \in 1..Len(applied) :
            \A c \in Cells(Replacement(applied[n].k)) :
                Get(Replacement(applied[n].k), c[1], c[2]) # WILDCARD =>
                    in_bounds(buffer, applied[n].i + c[1], applied[n].j + c[2])

\* C28, as claimed: a resize that throws leaves the grid as it was before
\* the call, width, height and cells, and the number of cells is still
\* width * height.  (Stated for a grid of positive width and height.)
C28_FailedResizeNoChange ==
    (pc = "grid" /\ op.name = "resize" /\ op.threw /\ Positive(op.before)) =>
        (m_grid = op.before /\ CellCount(m_grid))

\* the anchor loops of apply from the n-th anchor on, every draw being r
RECURSIVE ScanWith(_, _, _, _, _)
ScanWith(in, out, t, n, r) ==
    IF in.h <= 0 \/ n >= in.w * in.h THEN out
    ELSE ScanWith(in, AnchorOutput(in, out, t, n \div in.h, n % in.h, r), t, n + 1, r)

\* the replacement list is empty or its first entry has probability >= 1.0
Certain(t) ==
    t.replacements = <<>> \/ t.replacements[1].probability >= PUnit

\* C29: when the replacement list is empty or its first entry has
\* probability >= 1.0, the output RuleBased apply returns is the same
\* whatever was drawn at each anchor: it is the output of the run in which
\* every draw is 0.
C29_Deterministic ==
    (pc = "returned" /\ T.type = "rule_based" /\ Certain(T)) =>
        buffer = ScanWith(in0, RuleBegin(in0, out0), T, 0, 0)

\* C29's case: apply has returned from a rule with two replacements, the
\* first certain, after two matches or more, the last of them with the
\* draw 1.0, and the output differs from the input.
C29_Witness ==
    /\ pc = "returned"
    /\ Len(T.replacements) = 2
    /\ Certain(T)
    /\ T.replacements[1].replacement # T.replacements[2].replacement
    /\ Len(applied) >= 2
    /\ last.match /\ last.r = PUnit
    /\ buffer # in0

\* synthesize() from the n-th transformation on, every draw being 0 (the
\* buffer a rule writes is copied from its input first, so what it held
\* does not matter)
RECURSIVE SynthesizeWith(_, _, _)
SynthesizeWith(g, ts, n) ==
    IF n > Len(ts) THEN g
    ELSE IF enabled(ts[n])
         THEN SynthesizeWith(ScanWith(g, RuleBegin(g, GridNew(g.w, g.h, 0)), ts[n], 0, 0),
                             ts, n + 1)
         ELSE SynthesizeWith(g, ts, n + 1)

\* the same for synthesize() (under Spec): when every enabled
\* transformation is such a rule, the grid returned is the one of the run
\* in which every draw is 0
C29_SynthesizeDeterministic ==
    (/\ pc = "done"
     /\ \A n \in 1..Len(m_transformations) :
           enabled(m_transformations[n]) =>
               (m_transformations[n].type = "rule_based" /\ Certain(m_transformations[n]))) =>
        m_grid = SynthesizeWith(g0, m_transformations, 1)

\* C30: in the editor the selected index is -1 or an index of the
\* transformation list; after a move, and after the removal of a row that
\* was not the selected one, the object selected is the one that was
\* selected before (none if none was); after the removal of the selected
\* row nothing is selected; after a successful load nothing is selected.
C30_Selection ==
    pc \in {"editor", "aborted"} =>
        /\ m_selected_transform_index \in -1..Len(m_transformations) - 1
        /\ op.name \in {"move_up", "move_down"} => SelectedObject = op.was
        /\ op.name = "remove" =>
              SelectedObject = (IF op.row = op.was THEN 0 ELSE op.was)
        /\ (op.name = "load" /\ op.ok) => m_selected_transform_index = -1

\* C30's case: a row above the selected one was removed, the selected
\* index went down by one and names the object that was selected.
C30_Witness ==
    /\ pc = "editor"
    /\ op.name = "remove"
    /\ op.i < op.selected
    /\ m_selected_transform_index = op.selected - 1
    /\ SelectedObject = op.was
    /\ op.was # 0

\* the same for a move of the selected row
C30_WitnessMove ==
    /\ pc = "editor"
    /\ op.name = "move_down"
    /\ op.i = op.selected
    /\ m_selected_transform_index = op.i + 1

====
